---- MODULE Spec2Model ----
(***************************************************************************)
(* PostgreSQL configuration store (configuration/postgres/postgres.go):    *)
(* Init and parseMetadata, Get and buildQuery, Subscribe, Unsubscribe, the  *)
(* listener goroutine doSubscribe and the payload decoder                   *)
(* handleSubscribedChange.                                                  *)
(*                                                                          *)
(* Go strings are modelled as sequences of bytes (naturals), so that        *)
(* length, ASCII-ness, concatenation and equality of map keys are computed  *)
(* and not assumed.                                                         *)
(***************************************************************************)
EXTENDS Integers, Sequences, FiniteSets, TLC

(***************************************************************************)
(* Bounds of the model.                                                     *)
(***************************************************************************)
\* number of Subscribe calls (and so of listener goroutines) explored
MaxSubs == 2
\* number of concurrent calling goroutines of the host
MaxCallers == 2
\* number of Subscribe calls a sequential host makes (SeqSpec, FairSeqSpec)
MaxListeners == 1
\* number of rows a query of Get returns
MaxRows == 2

(***************************************************************************)
(* Byte strings.                                                            *)
(***************************************************************************)
Repeat(b, n) == [i \in 1..n |-> b]

\* "listen "
ListenPrefix == <<108, 105, 115, 116, 101, 110, 32>>
\* "cfg"
TableCfg == <<99, 102, 103>>
\* "host=db"
ConnStr == <<104, 111, 115, 116, 61, 100, 98>>
\* "1s", "0s", "5ms", "-1s", "abc"
Dur1s == <<49, 115>>
Dur0s == <<48, 115>>
Dur5ms == <<53, 109, 115>>
DurNeg1s == <<45, 49, 115>>
DurBad == <<97, 98, 99>>
\* "1" (no unit), "1s5ms"
DurNoUnit == <<49>>
Dur1s5ms == <<49, 115, 53, 109, 115>>
\* "c\u00e9" in UTF-8: a table name with a character outside ASCII
TableNonASCII == <<99, 195, 169>>

\* uuid.New().String(): 36 characters of [0-9a-f-]; the n-th identifier drawn is
\* abbreviated to two hexadecimal characters, "f" followed by the digit n
Uuid(n) == <<102, 48 + n>>

\* a check that lets every byte pass
IsASCII_AnyByte(s) == TRUE

\* utf8string.NewString(tbl).IsASCII(): every byte is below 0x80
IsASCII(s) == \A i \in 1..Len(s) : s[i] < 128

maxIdentifierLength == 64

(***************************************************************************)
(* time.ParseDuration on byte strings: [-+]?(digits unit)+ or "0".          *)
(* Durations are nanoseconds; the units sampled are ns, us, ms and s.       *)
(***************************************************************************)
IsDigit(b) == b >= 48 /\ b <= 57

\* <<unit multiplier, bytes consumed>> for the unit at the head of s, or <<0, 0>>
UnitAt(s) ==
    IF Len(s) >= 2 /\ s[1] = 110 /\ s[2] = 115 THEN <<1, 2>>
    ELSE IF Len(s) >= 2 /\ s[1] = 117 /\ s[2] = 115 THEN <<1000, 2>>
    ELSE IF Len(s) >= 2 /\ s[1] = 109 /\ s[2] = 115 THEN <<1000000, 2>>
    ELSE IF Len(s) >= 1 /\ s[1] = 115 THEN <<1000000000, 1>>
    ELSE <<0, 0>>

RECURSIVE DigitsValue(_, _)
\* <<value, rest>> of the leading run of digits of s, acc the value so far
DigitsValue(s, acc) ==
    IF Len(s) > 0 /\ IsDigit(s[1])
    THEN DigitsValue(Tail(s), acc * 10 + (s[1] - 48))
    ELSE <<acc, s>>

RECURSIVE DurationGroups(_, _)
\* [ok, d] for a sequence of one or more (digits unit) groups
DurationGroups(s, acc) ==
    IF Len(s) = 0 THEN [ok |-> TRUE, d |-> acc]
    ELSE IF ~IsDigit(s[1]) THEN [ok |-> FALSE, d |-> 0]
    ELSE LET dv == DigitsValue(s, 0)
             u  == UnitAt(dv[2])
         IN  IF u[2] = 0 THEN [ok |-> FALSE, d |-> 0]
             ELSE DurationGroups(SubSeq(dv[2], u[2] + 1, Len(dv[2])), acc + dv[1] * u[1])

ParseDuration(s) ==
    LET neg  == Len(s) > 0 /\ s[1] = 45
        body == IF Len(s) > 0 /\ (s[1] = 45 \/ s[1] = 43) THEN Tail(s) ELSE s
    IN  IF body = <<48>> THEN [ok |-> TRUE, d |-> 0]
        ELSE IF Len(body) = 0 THEN [ok |-> FALSE, d |-> 0]
        ELSE LET r == DurationGroups(body, 0)
             IN  IF r.ok THEN [ok |-> TRUE, d |-> IF neg THEN 0 - r.d ELSE r.d]
                 ELSE r

(***************************************************************************)
(* parseMetadata.  Properties is a function from a subset of the property   *)
(* names to byte strings.  The result carries the partially filled metadata *)
(* the code returns next to the error.                                      *)
(***************************************************************************)
connectionStringKey == "connectionString"
configtablekey == "table"
connMaxIdleTimeKey == "connMaxIdleTime"

ErrorMissingConnectionString == "missing postgreSQL connection string"
ErrorMissingTableName == "missing postgreSQL configuration table name"
ErrorNonASCII == "invalid table name. non-ascii characters are not supported"
ErrorTooLongFieldLength == "field name is too long"
ErrorMissinMaxTimeout == "missing PostgreSQL maxTimeout setting in configuration"
ErrorAlreadyInitialized == "PostgreSQL configuration store already initialized"
NoError == "nil"

\* metadata{}: the zero value
ZeroMetadata == [connectionString |-> <<>>, configTable |-> <<>>, maxIdleTime |-> 0]

Has(props, k) == k \in DOMAIN props /\ props[k] # <<>>

parseMetadata(props) ==
    IF ~Has(props, connectionStringKey)
    THEN [m |-> ZeroMetadata, err |-> ErrorMissingConnectionString]
    ELSE LET m1 == [ZeroMetadata EXCEPT !.connectionString = props[connectionStringKey]]
         IN  IF ~Has(props, configtablekey)
             THEN [m |-> m1, err |-> ErrorMissingTableName]
             ELSE IF ~IsASCII(props[configtablekey])
             THEN [m |-> m1, err |-> ErrorNonASCII]
             ELSE IF Len(props[configtablekey]) > maxIdentifierLength
             THEN [m |-> m1, err |-> ErrorTooLongFieldLength]
             ELSE LET m2 == [m1 EXCEPT !.configTable = props[configtablekey]]
                  IN  IF Has(props, connMaxIdleTimeKey)
                      THEN LET t == ParseDuration(props[connMaxIdleTimeKey])
                           IN  IF t.ok
                               THEN [m |-> [m2 EXCEPT !.maxIdleTime = t.d], err |-> NoError]
                               ELSE [m |-> m2, err |-> ErrorMissinMaxTimeout]
                      ELSE [m |-> m2, err |-> NoError]

(***************************************************************************)
(* Notification payloads.  A payload is the raw text of a notification: it  *)
(* is either not JSON at all or a JSON value.  A JSON object is the         *)
(* sequence of its <<name, value>> members in text order; names and string  *)
(* values are byte strings.                                                 *)
(***************************************************************************)
NotJSON == [t |-> "invalid"]
JNull == [t |-> "null"]
JNumber == [t |-> "number"]
JArray == [t |-> "array"]
JString(s) == [t |-> "string", s |-> s]
JObject(fields) == [t |-> "object", fields |-> fields]

\* field names and values used by the sampled payloads
NmData == <<100, 97, 116, 97>>
NmKeyLower == <<107, 101, 121>>
NmKeyMixed == <<75, 101, 121>>
NmKeyUpper == <<75, 69, 89>>
NmValueLower == <<118, 97, 108, 117, 101>>
NmValueMixed == <<86, 97, 108, 117, 101>>
NmVersionLower == <<118, 101, 114, 115, 105, 111, 110>>
NmVersionMixed == <<86, 101, 114, 115, 105, 111, 110>>
NmMetadataLower == <<109, 101, 116, 97, 100, 97, 116, 97>>
NmMetadataMixed == <<77, 101, 116, 97, 100, 97, 116, 97>>
NmExtra == <<101, 120, 116, 114, 97>>
StrK1 == <<107, 49>>
StrK2 == <<107, 50>>
StrV1 == <<118, 49>>
StrV2 == <<118, 50>>
StrOne == <<49>>
StrTwo == <<50>>
StrM == <<109>>
StrX == <<120>>
StrY == <<121>>

\* a comparison of field names that tells the letter cases apart
ToLower_KeepCase(s) == s

\* strings.ToLower on ASCII bytes
ToLower(s) == [i \in 1..Len(s) |-> IF s[i] >= 65 /\ s[i] <= 90 THEN s[i] + 32 ELSE s[i]]

\* encoding/json into map[string]interface{}: the member names of an object, and
\* the value a name maps to (a repeated name keeps its last member)
Names(fields) == {fields[i][1] : i \in 1..Len(fields)}

Lookup(fields, name) ==
    LET last == CHOOSE i \in 1..Len(fields) :
                    /\ fields[i][1] = name
                    /\ \A j \in (i + 1)..Len(fields) : fields[j][1] # name
    IN  fields[last][2]

\* json.Unmarshal([]byte(msg.Payload), &payload) with payload a
\* map[string]interface{}: an object decodes to its members, null leaves the map
\* empty, anything else (not JSON, or a JSON value of another kind) is an error
Unmarshal(payload) ==
    IF payload.t = "object" THEN [ok |-> TRUE, fields |-> payload.fields]
    ELSE IF payload.t = "null" THEN [ok |-> TRUE, fields |-> <<>>]
    ELSE [ok |-> FALSE, fields |-> <<>>]

\* the orders in which Go may range over a map with key set S
RECURSIVE Perms(_)
Perms(S) ==
    IF S = {} THEN {<<>>}
    ELSE UNION {{<<x>> \o p : p \in Perms(S \ {x})} : x \in S}

EmptyMeta == [k \in {} |-> <<>>]

\* a metadata decoder that copies the string entries and skips the others
MetadataStep_SkipNonStrings(acc, v) ==
    IF v.t # "object" THEN [acc EXCEPT !.panic = TRUE]
    ELSE LET strs == {k \in Names(v.fields) : Lookup(v.fields, k).t = "string"}
         IN  [acc EXCEPT !.m = [k \in DOMAIN acc.m \cup strs |->
                                   IF k \in strs THEN Lookup(v.fields, k).s
                                   ELSE acc.m[k]]]

\* v.Interface().(map[string]interface{}) followed by m[k] = v.(string) for every
\* entry: the merged mapping, or a panic when v is no object or an entry no string
MetadataStep(acc, v) ==
    IF v.t # "object" THEN [acc EXCEPT !.panic = TRUE]
    ELSE IF \E k \in Names(v.fields) : Lookup(v.fields, k).t # "string"
    THEN [acc EXCEPT !.panic = TRUE]
    ELSE [acc EXCEPT !.m = [k \in DOMAIN acc.m \cup Names(v.fields) |->
                               IF k \in Names(v.fields) THEN Lookup(v.fields, k).s
                               ELSE acc.m[k]]]

\* one iteration of the loop over row.MapKeys(): the switch on
\* strings.ToLower(strKey); a failed type assertion panics
DecodeStep(acc, name, v) ==
    IF acc.panic THEN acc
    ELSE IF ToLower(name) = NmKeyLower
    THEN IF v.t = "string" THEN [acc EXCEPT !.key = v.s] ELSE [acc EXCEPT !.panic = TRUE]
    ELSE IF ToLower(name) = NmValueLower
    THEN IF v.t = "string" THEN [acc EXCEPT !.value = v.s] ELSE [acc EXCEPT !.panic = TRUE]
    ELSE IF ToLower(name) = NmVersionLower
    THEN IF v.t = "string" THEN [acc EXCEPT !.version = v.s] ELSE [acc EXCEPT !.panic = TRUE]
    ELSE IF ToLower(name) = NmMetadataLower
    THEN MetadataStep(acc, v)
    ELSE acc

RECURSIVE DecodeInOrder(_, _, _)
DecodeInOrder(acc, fields, order) ==
    IF order = <<>> THEN acc
    ELSE DecodeInOrder(DecodeStep(acc, Head(order), Lookup(fields, Head(order))),
                       fields, Tail(order))

\* var key, value, version string; m := make(map[string]string)
DecodeStart == [key |-> <<>>, value |-> <<>>, version |-> <<>>, m |-> EmptyMeta, panic |-> FALSE]

\* reflect.ValueOf(payload["data"]).Kind() == reflect.Map
DataIsMap(fields) == NmData \in Names(fields) /\ Lookup(fields, NmData).t = "object"

\* handleSubscribedChange up to the call of the handler: the set of results the
\* map iteration order allows.  kind is "unmarshal_error" (logged, return),
\* "panic" (recovered and logged by the deferred function) or "event" (the
\* UpdateEvent handed to the handler)
DecodeOutcomes(payload) ==
    LET u == Unmarshal(payload)
    IN  IF ~u.ok
        THEN {[kind |-> "unmarshal_error", key |-> <<>>, value |-> <<>>,
               version |-> <<>>, m |-> EmptyMeta]}
        ELSE IF ~DataIsMap(u.fields)
        THEN {[kind |-> "event", key |-> <<>>, value |-> <<>>,
               version |-> <<>>, m |-> EmptyMeta]}
        ELSE LET row == Lookup(u.fields, NmData).fields
             IN  {LET r == DecodeInOrder(DecodeStart, row, order)
                  IN  IF r.panic
                      THEN [kind |-> "panic", key |-> <<>>, value |-> <<>>,
                            version |-> <<>>, m |-> EmptyMeta]
                      ELSE [kind |-> "event", key |-> r.key, value |-> r.value,
                            version |-> r.version, m |-> r.m]
                  : order \in Perms(Names(row))}

\* the payloads the model delivers
\*  1  not JSON
\*  2  {"data":{"Key":"k1","Value":"v1","Version":"1","Metadata":{"m":"x"}}}
\*  3  {"extra":"x"}                      no "data" field
\*  4  {"data":"x"}                       "data" is not a mapping
\*  5  {"data":{"key":"k1","metadata":{"m":1}}}    a metadata value that is no string
\*  6  null
\*  7  [...]                              a JSON array
\*  8  {"data":{"key":"k2","value":"v2","version":"2","metadata":{},"extra":1}}
\*  9  {"data":{"key":1}}                 a key that is no string
\* 10  {"data":{"key":"k1","KEY":"k2"}}   the same field in two letter cases
PayloadSamples ==
    << NotJSON,
       JObject(<< <<NmData, JObject(<< <<NmKeyMixed, JString(StrK1)>>,
                                       <<NmValueMixed, JString(StrV1)>>,
                                       <<NmVersionMixed, JString(StrOne)>>,
                                       <<NmMetadataMixed,
                                         JObject(<< <<StrM, JString(StrX)>> >>)>> >>)>> >>),
       JObject(<< <<NmExtra, JString(StrX)>> >>),
       JObject(<< <<NmData, JString(StrX)>> >>),
       JObject(<< <<NmData, JObject(<< <<NmKeyLower, JString(StrK1)>>,
                                       <<NmMetadataLower,
                                         JObject(<< <<StrM, JNumber>> >>)>> >>)>> >>),
       JNull,
       JArray,
       JObject(<< <<NmData, JObject(<< <<NmKeyLower, JString(StrK2)>>,
                                       <<NmValueLower, JString(StrV2)>>,
                                       <<NmVersionLower, JString(StrTwo)>>,
                                       <<NmMetadataLower, JObject(<<>>)>>,
                                       <<NmExtra, JNumber>> >>)>> >>),
       JObject(<< <<NmData, JObject(<< <<NmKeyLower, JNumber>> >>)>> >>),
       JObject(<< <<NmData, JObject(<< <<NmKeyLower, JString(StrK1)>>,
                                       <<NmKeyUpper, JString(StrK2)>> >>)>> >>) >>

PayloadIds == DOMAIN PayloadSamples

\* the results of decoding each sampled payload, computed once
Decoded == [p \in PayloadIds |-> DecodeOutcomes(PayloadSamples[p])]

\* what the caller's handler may do with an event: return nil, return an error, panic
HandlerResults == {"nil", "error", "panic"}

(***************************************************************************)
(* State.                                                                   *)
(***************************************************************************)
VARIABLES
    client,                \* p.client: "nil" or "pool"
    metadata,              \* p.metadata
    initOk,                \* an Init call has returned nil (the host uses the store)
    subscribeStopChanMap,  \* p.subscribeStopChanMap: key (byte string) -> stop channel
    closes,                \* per stop channel, the number of close() calls made on it
    nextSub,               \* the number of identifiers drawn by uuid.New()
    callers,               \* per calling goroutine, its position in Subscribe/Unsubscribe
    unsubscribed,          \* history: the subscriptions an Unsubscribe call has closed
    unsubCalled,           \* history: Unsubscribe has been called
    lpc,                   \* per listener goroutine, its position in doSubscribe
    conn,                  \* per listener, its pool connection
    ctxErr,                \* per subscription, Err() of its context: of the caller's
                           \* ctx until ctxTimeout is derived from it, of ctxTimeout after
    exit,                  \* per listener, why doSubscribe returned
    ev,                    \* what the last step showed outside: a return value, or a
                           \* run of handleSubscribedChange
    crashed                \* an unrecovered panic has ended the process

store == <<client, metadata, initOk>>
registry == <<subscribeStopChanMap, closes>>
history == <<unsubscribed, unsubCalled>>
listeners == <<lpc, conn, ctxErr, exit>>
vars == <<client, metadata, initOk, subscribeStopChanMap, closes, nextSub, callers,
          unsubscribed, unsubCalled, lpc, conn, ctxErr, exit, ev, crashed>>

\* stop channels and listener goroutines are numbered by the Subscribe call that
\* made them; the n-th call draws the identifier Uuid(n)
Subs == 1..MaxSubs
Callers == 1..MaxCallers

\* key := "listen " + p.metadata.configTable
ChannelKey == ListenPrefix \o metadata.configTable

\* an identifier no Subscribe call has returned
UnknownID == Uuid(0)

\* what a Get call was given and what it returned: the request, the query text
\* it built, the rows the database answered with, the response (nil or a
\* GetResponse) and the Items of the response
NoGet == [req |-> 0, query |-> <<>>, rows |-> <<>>, resp |-> "none", items |-> <<>>]

IdleCaller == [pc |-> "idle", n |-> 0, id |-> <<>>, found |-> FALSE, ch |-> 0, prior |-> {}]

NoEvent == [kind |-> "none", op |-> "none", id |-> <<>>, found |-> FALSE, err |-> "nil",
            sub |-> 0, payload |-> 0, outcome |-> "none", invoked |-> FALSE, calls |-> 0,
            key |-> <<>>, value |-> <<>>, version |-> <<>>, m |-> EmptyMeta,
            handler |-> "none", props |-> EmptyMeta, get |-> NoGet]

\* the return of op (Init, Subscribe or Unsubscribe)
Return(op, id, found, err) ==
    [NoEvent EXCEPT !.kind = "return", !.op = op, !.id = id, !.found = found, !.err = err]

EmptyMap == [k \in {} |-> 0]

\* the subscriptions whose Subscribe call has returned
Returned == {n \in Subs : lpc[n] # "none"}

Init ==
    /\ client = "nil"
    /\ metadata = ZeroMetadata
    /\ initOk = FALSE
    /\ subscribeStopChanMap = EmptyMap
    /\ closes = [n \in Subs |-> 0]
    /\ nextSub = 0
    /\ callers = [c \in Callers |-> IdleCaller]
    /\ unsubscribed = {}
    /\ unsubCalled = FALSE
    /\ lpc = [n \in Subs |-> "none"]
    /\ conn = [n \in Subs |-> "none"]
    /\ ctxErr = [n \in Subs |-> "nil"]
    /\ exit = [n \in Subs |-> "none"]
    /\ ev = NoEvent
    /\ crashed = FALSE

(***************************************************************************)
(* ConfigurationStore.Init                                                  *)
(***************************************************************************)
\* a property mapping from optional values (<<>> absent, <<v>> present)
MkProps(c, t, i) ==
    LET opt == [k \in {connectionStringKey, configtablekey, connMaxIdleTimeKey} |->
                   IF k = connectionStringKey THEN c
                   ELSE IF k = configtablekey THEN t ELSE i]
    IN  [k \in {x \in DOMAIN opt : opt[x] # <<>>} |-> opt[k][1]]

\* the property mappings parseMetadata is explored with: each property absent,
\* empty, valid, or invalid in one of the ways the function tells apart
ParseProps ==
    { MkProps(c, t, i) :
        c \in {<<>>, << <<>> >>, <<ConnStr>>},
        t \in {<<>>, << <<>> >>, <<TableCfg>>, <<TableNonASCII>>,
               <<Repeat(97, maxIdentifierLength)>>, <<Repeat(97, maxIdentifierLength + 1)>>},
        i \in {<<>>, << <<>> >>, <<Dur1s>>, <<Dur0s>>, <<Dur5ms>>, <<DurNeg1s>>,
               <<Dur1s5ms>>, <<DurBad>>, <<DurNoUnit>>} }

\* the property mappings the host initializes the store with
InitProps ==
    { MkProps(<<ConnStr>>, <<TableCfg>>, <<Dur1s>>),
      MkProps(<<ConnStr>>, <<TableCfg>>, <<>>),
      MkProps(<<>>, <<TableCfg>>, <<Dur1s>>) }

\* what the database may do during Init: answer everything, or fail Connect, Ping
\* or the table query
DbAnswers == {"ok", "connect fails", "ping fails", "query fails"}

\* context.WithTimeout(parent, d): already done when d <= 0
DeadlinePassed(d) == d <= 0

\* Init without the check of p.client: every call parses and connects anew
StoreInit_NoNilCheck(props, db) ==
    /\ ~crashed
    /\ LET parsed == parseMetadata(props)
           ret(e) == [Return("Init", <<>>, FALSE, e) EXCEPT !.props = props]
       IN  IF parsed.err # NoError
           THEN /\ ev' = ret(parsed.err)
                /\ UNCHANGED store
           ELSE /\ metadata' = parsed.m
                /\ IF DeadlinePassed(parsed.m.maxIdleTime) \/ db = "connect fails"
                   THEN /\ ev' = ret("connection error")
                        /\ UNCHANGED <<client, initOk>>
                   ELSE /\ client' = "pool"
                        /\ IF db = "ping fails"
                           THEN ev' = ret("ping error") /\ UNCHANGED initOk
                           ELSE IF db = "query fails"
                           THEN ev' = ret("query error") /\ UNCHANGED initOk
                           ELSE ev' = ret(NoError) /\ initOk' = TRUE
    /\ UNCHANGED <<registry, nextSub, callers, history, listeners, crashed>>

\* Init(metadata): the return value is shown in ev next to the properties given
StoreInit(props, db) ==
    /\ ~crashed
    /\ LET parsed == parseMetadata(props)
           ret(e) == [Return("Init", <<>>, FALSE, e) EXCEPT !.props = props]
       IN  IF client # "nil"
           THEN /\ ev' = ret(ErrorAlreadyInitialized)
                /\ UNCHANGED store
           ELSE IF parsed.err # NoError
           THEN /\ ev' = ret(parsed.err)
                /\ UNCHANGED store
           ELSE /\ metadata' = parsed.m
                /\ IF DeadlinePassed(parsed.m.maxIdleTime) \/ db = "connect fails"
                   THEN /\ ev' = ret("connection error")
                        /\ UNCHANGED <<client, initOk>>
                   ELSE /\ client' = "pool"
                        /\ IF db = "ping fails"
                           THEN ev' = ret("ping error") /\ UNCHANGED initOk
                           ELSE IF db = "query fails"
                           THEN ev' = ret("query error") /\ UNCHANGED initOk
                           ELSE ev' = ret(NoError) /\ initOk' = TRUE
    /\ UNCHANGED <<registry, nextSub, callers, history, listeners, crashed>>

(***************************************************************************)
(* buildQuery and ConfigurationStore.Get                                    *)
(***************************************************************************)
\* "SELECT * FROM ", " WHERE KEY IN ('", "','", "')", " AND ", "='", "'"
QSelectFrom == <<83, 69, 76, 69, 67, 84, 32, 42, 32, 70, 82, 79, 77, 32>>
QWhereKeyIn == <<32, 87, 72, 69, 82, 69, 32, 75, 69, 89, 32, 73, 78, 32, 40, 39>>
QKeySep == <<39, 44, 39>>
QKeysEnd == <<39, 41>>
QAnd == <<32, 65, 78, 68, 32>>
QEq == <<61, 39>>
QQuote == <<39>>

\* "env", "prod", "owner", "k3"
NmEnv == <<101, 110, 118>>
StrProd == <<112, 114, 111, 100>>
NmOwner == <<111, 119, 110, 101, 114>>
StrK3 == <<107, 51>>

\* strings.Join(elems, sep)
RECURSIVE Join(_, _)
Join(elems, sep) ==
    IF Len(elems) = 0 THEN <<>>
    ELSE IF Len(elems) = 1 THEN elems[1]
    ELSE elems[1] \o sep \o Join(Tail(elems), sep)

\* the loop over req.Metadata taken in the order given: k + "='" + v + "'" for
\* every filter, " AND " between two of them
RECURSIVE FilterClauses(_, _)
FilterClauses(md, order) ==
    IF Len(order) = 0 THEN <<>>
    ELSE Head(order) \o QEq \o md[Head(order)] \o QQuote \o
         (IF Len(order) > 1 THEN QAnd ELSE <<>>) \o FilterClauses(md, Tail(order))

\* buildQuery(req, configTable): the query texts a call may return, one for
\* every order in which the range over the map req.Metadata may run
buildQuery(req, configTable) ==
    LET query == IF Len(req.Keys) = 0
                 THEN QSelectFrom \o configTable
                 ELSE QSelectFrom \o configTable \o QWhereKeyIn \o
                      Join(req.Keys, QKeySep) \o QKeysEnd
    IN  IF Cardinality(DOMAIN req.Metadata) > 0
        THEN {query \o QAnd \o FilterClauses(req.Metadata, order) :
                 order \in Perms(DOMAIN req.Metadata)}
        ELSE {query}

\* the requests Get is called with: no keys and no filter, two keys, one key
\* with one filter, one key with two filters
GetRequests ==
    << [Keys |-> <<>>, Metadata |-> EmptyMeta],
       [Keys |-> <<StrK1, StrK2>>, Metadata |-> EmptyMeta],
       [Keys |-> <<StrK1>>, Metadata |-> (NmEnv :> StrProd)],
       [Keys |-> <<StrK1>>, Metadata |-> (NmEnv :> StrProd) @@ (StrM :> StrX)] >>

\* the rows of the configuration table: key, value, version and the text of the
\* metadata column ({"owner":"x"}, {}, not JSON)
RowSamples ==
    << [key |-> StrK1, value |-> StrV1, version |-> StrOne,
        metadata |-> JObject(<< <<NmOwner, JString(StrX)>> >>)],
       [key |-> StrK2, value |-> StrV2, version |-> StrTwo, metadata |-> JObject(<<>>)],
       [key |-> StrK3, value |-> StrV1, version |-> StrOne, metadata |-> NotJSON] >>

RowIds == DOMAIN RowSamples

\* what p.client.Query may answer: an error, or up to MaxRows rows
QueryResults ==
    {[ok |-> FALSE, rows |-> <<>>]} \cup
    {[ok |-> TRUE, rows |-> rs] : rs \in UNION {[1..n -> RowIds] : n \in 0..MaxRows}}

\* rows.Scan(key, &item.Value, &item.Version, &metadata) is handed the string
\* key by value, so no key can be stored through it: the driver either rejects
\* the destination, or scans the other columns and leaves key empty
ScanResults == {"error", "ok"}

\* json.Unmarshal(metadata, &v) with v a map[string]string
UnmarshalStrings(j) ==
    /\ j.t = "object"
    /\ \A i \in 1..Len(j.fields) : j.fields[i][2].t = "string"

\* one iteration of the loop over the rows.  response.Items is the nil map of
\* the zero GetResponse, so the assignment response.Items[key] = &item panics:
\* no iteration goes on to the next row
GetRow(row, scan) ==
    IF scan = "error" THEN [resp |-> "nil", err |-> "scan error"]
    ELSE IF ~UnmarshalStrings(row.metadata) THEN [resp |-> "nil", err |-> "unmarshal error"]
    ELSE [resp |-> "nil", err |-> "panic: assignment to entry in nil map"]

\* Get(ctx, req) for request r, with the database answering q and the driver
\* scanning as scan.  With no row the loop is not entered and the zero
\* GetResponse (Items nil, no entries) is returned
Get(r, q, scan) ==
    /\ ~crashed
    /\ initOk
    /\ \E query \in buildQuery(GetRequests[r], metadata.configTable) :
          LET res == IF ~q.ok THEN [resp |-> "nil", err |-> "query error"]
                     ELSE IF Len(q.rows) = 0 THEN [resp |-> "response", err |-> NoError]
                     ELSE GetRow(RowSamples[Head(q.rows)], scan)
          IN  ev' = [NoEvent EXCEPT !.kind = "return", !.op = "Get", !.err = res.err,
                                    !.get = [req |-> r, query |-> query, rows |-> q.rows,
                                             resp |-> res.resp, items |-> <<>>]]
    /\ UNCHANGED <<store, registry, nextSub, callers, history, listeners, crashed>>

(***************************************************************************)
(* ConfigurationStore.Subscribe, in the two steps other goroutines can      *)
(* interleave with: the Load of the channel key, then close/Store/go.       *)
(***************************************************************************)
\* sync.Map.Load
LoadOk(m, k) == k \in DOMAIN m

\* sync.Map.Store
MapStore(m, k, v) == [x \in DOMAIN m \cup {k} |-> IF x = k THEN v ELSE m[x]]

\* sync.Map.Delete
MapDelete(m, k) == [x \in DOMAIN m \ {k} |-> m[x]]

\* close(ch): a second close panics and leaves the channel closed
CloseChan(cl, ch) == [cl EXCEPT ![ch] = IF @ >= 2 THEN 2 ELSE @ + 1]

\* subscribeID := uuid.New().String(); p.subscribeStopChanMap.Load(key)
SubscribeLoad(c) ==
    /\ ~crashed
    /\ initOk
    /\ callers[c].pc = "idle"
    /\ nextSub < MaxSubs
    /\ nextSub' = nextSub + 1
    /\ callers' = [callers EXCEPT ![c] =
                      [pc |-> "sub_store", n |-> nextSub + 1, id |-> Uuid(nextSub + 1),
                       found |-> LoadOk(subscribeStopChanMap, ChannelKey),
                       ch |-> IF LoadOk(subscribeStopChanMap, ChannelKey)
                              THEN subscribeStopChanMap[ChannelKey] ELSE 0,
                       prior |-> Returned]]
    /\ ev' = NoEvent
    /\ UNCHANGED <<store, registry, history, listeners, crashed>>

\* close(oldStopChan) when the Load found one; Store(subscribeID, stop);
\* go p.doSubscribe(...); return subscribeID, nil
SubscribeStore(c) ==
    /\ ~crashed
    /\ callers[c].pc = "sub_store"
    /\ closes' = IF callers[c].found THEN CloseChan(closes, callers[c].ch) ELSE closes
    /\ subscribeStopChanMap' = MapStore(subscribeStopChanMap, callers[c].id, callers[c].n)
    /\ lpc' = [lpc EXCEPT ![callers[c].n] = "acquire"]
    /\ ev' = Return("Subscribe", callers[c].id, callers[c].found, NoError)
    /\ callers' = [callers EXCEPT ![c] = IdleCaller]
    /\ UNCHANGED <<store, nextSub, history, conn, ctxErr, exit, crashed>>

(***************************************************************************)
(* ConfigurationStore.Unsubscribe, in its three steps: Load, Delete, close. *)
(***************************************************************************)
\* the identifiers a caller may pass: those Subscribe has returned, one that was
\* never issued, and the channel key
UnsubscribeArgs == {Uuid(n) : n \in Returned} \cup {UnknownID, ChannelKey}

\* Unsubscribe answering an unknown identifier with an error
UnsubscribeLoad_ErrorOnMiss(c, id) ==
    /\ ~crashed
    /\ initOk
    /\ callers[c].pc = "idle"
    /\ id \in UnsubscribeArgs
    /\ unsubCalled' = TRUE
    /\ IF LoadOk(subscribeStopChanMap, id)
       THEN /\ callers' = [callers EXCEPT ![c] =
                              [IdleCaller EXCEPT !.pc = "unsub_delete", !.id = id,
                                                 !.found = TRUE,
                                                 !.ch = subscribeStopChanMap[id]]]
            /\ ev' = NoEvent
       ELSE /\ ev' = Return("Unsubscribe", id, FALSE, "subscription not found")
            /\ UNCHANGED callers
    /\ UNCHANGED <<store, registry, nextSub, unsubscribed, listeners, crashed>>

UnsubscribeLoad(c, id) ==
    /\ ~crashed
    /\ initOk
    /\ callers[c].pc = "idle"
    /\ id \in UnsubscribeArgs
    /\ unsubCalled' = TRUE
    /\ IF LoadOk(subscribeStopChanMap, id)
       THEN /\ callers' = [callers EXCEPT ![c] =
                              [IdleCaller EXCEPT !.pc = "unsub_delete", !.id = id,
                                                 !.found = TRUE,
                                                 !.ch = subscribeStopChanMap[id]]]
            /\ ev' = NoEvent
       ELSE /\ ev' = Return("Unsubscribe", id, FALSE, NoError)
            /\ UNCHANGED callers
    /\ UNCHANGED <<store, registry, nextSub, unsubscribed, listeners, crashed>>

\* Unsubscribe closing the stop signal without taking it out of the registry
UnsubscribeDelete_KeepsEntry(c) ==
    /\ ~crashed
    /\ callers[c].pc = "unsub_delete"
    /\ callers' = [callers EXCEPT ![c].pc = "unsub_close"]
    /\ ev' = NoEvent
    /\ UNCHANGED <<store, registry, nextSub, history, listeners, crashed>>

\* p.subscribeStopChanMap.Delete(req.ID)
UnsubscribeDelete(c) ==
    /\ ~crashed
    /\ callers[c].pc = "unsub_delete"
    /\ subscribeStopChanMap' = MapDelete(subscribeStopChanMap, callers[c].id)
    /\ callers' = [callers EXCEPT ![c].pc = "unsub_close"]
    /\ ev' = NoEvent
    /\ UNCHANGED <<store, closes, nextSub, history, listeners, crashed>>

\* close(oldStopChan.(chan struct{})); return nil.  Closing a closed channel
\* panics in the calling goroutine
UnsubscribeClose(c) ==
    /\ ~crashed
    /\ callers[c].pc = "unsub_close"
    /\ closes' = CloseChan(closes, callers[c].ch)
    /\ ev' = Return("Unsubscribe", callers[c].id, TRUE,
                    IF closes[callers[c].ch] >= 1
                    THEN "panic: close of closed channel" ELSE NoError)
    /\ unsubscribed' = unsubscribed \cup {callers[c].ch}
    /\ callers' = [callers EXCEPT ![c] = IdleCaller]
    /\ UNCHANGED <<store, subscribeStopChanMap, nextSub, unsubCalled, listeners, crashed>>

(***************************************************************************)
(* doSubscribe: the listener goroutine of subscription n.  The stop channel *)
(* is a parameter of doSubscribe that its body never reads.                 *)
(***************************************************************************)
\* the caller cancels the ctx it passed to Subscribe; ctxTimeout, derived from
\* it, is cancelled with it unless its deadline has passed already
CancelCtx(n) ==
    /\ ~crashed
    /\ n <= nextSub
    /\ lpc[n] \in {"none", "acquire", "exec", "wait"}
    /\ ctxErr[n] = "nil"
    /\ ctxErr' = [ctxErr EXCEPT ![n] = "canceled"]
    /\ ev' = NoEvent
    /\ UNCHANGED <<store, registry, nextSub, callers, history, lpc, conn, exit, crashed>>

\* the deadline of ctxTimeout (set once, maxIdleTime after the listener acquired
\* its connection) passes
Expire(n) ==
    /\ ~crashed
    /\ lpc[n] \in {"exec", "wait"}
    /\ ctxErr[n] = "nil"
    /\ ctxErr' = [ctxErr EXCEPT ![n] = "deadline exceeded"]
    /\ ev' = NoEvent
    /\ UNCHANGED <<store, registry, nextSub, callers, history, lpc, conn, exit, crashed>>

\* conn, err := p.client.Acquire(ctx); on an error conn is nil, the error is
\* printed and the function goes on: conn.Exec on the nil connection is a nil
\* dereference in a goroutine with no recover, which ends the process.
\* Then ctxTimeout, cancel := context.WithTimeout(ctx, p.metadata.maxIdleTime).
\* ok: whether the pool can hand out a connection
ListenerAcquire(n, ok) ==
    /\ ~crashed
    /\ lpc[n] = "acquire"
    /\ IF ok /\ ctxErr[n] = "nil"
       THEN /\ conn' = [conn EXCEPT ![n] = "held"]
            /\ ctxErr' = [ctxErr EXCEPT ![n] =
                             IF DeadlinePassed(metadata.maxIdleTime)
                             THEN "deadline exceeded" ELSE "nil"]
            /\ lpc' = [lpc EXCEPT ![n] = "exec"]
            /\ UNCHANGED <<exit, crashed>>
       ELSE /\ conn' = [conn EXCEPT ![n] = "nil"]
            /\ lpc' = [lpc EXCEPT ![n] = "panicked"]
            /\ exit' = [exit EXCEPT ![n] = "nil dereference"]
            /\ crashed' = TRUE
            /\ UNCHANGED ctxErr
    /\ ev' = NoEvent
    /\ UNCHANGED <<store, registry, nextSub, callers, history>>

\* _, err = conn.Exec(ctxTimeout, channel); on an error: log, return (the
\* deferred cancel and conn.Release run).  ok: whether the database accepts the
\* listen command
ListenerExec(n, ok) ==
    /\ ~crashed
    /\ lpc[n] = "exec"
    /\ IF ok /\ ctxErr[n] = "nil"
       THEN /\ lpc' = [lpc EXCEPT ![n] = "wait"]
            /\ UNCHANGED <<conn, exit>>
       ELSE /\ lpc' = [lpc EXCEPT ![n] = "done"]
            /\ conn' = [conn EXCEPT ![n] = "released"]
            /\ exit' = [exit EXCEPT ![n] = "listen error"]
    /\ ev' = NoEvent
    /\ UNCHANGED <<store, registry, nextSub, callers, history, ctxErr, crashed>>

\* handleSubscribedChange(ctx, handler, notification, id) for payload p, decoded
\* as o, with a handler that answers h: an Unmarshal error and a panic are
\* logged and the handler is not reached; otherwise the handler is called once
\* (calls) with the event: ID id and the one item key -> (value, version, m)
HandleSubscribedChange(n, p, o, h) ==
    IF o.kind = "event"
    THEN [NoEvent EXCEPT !.kind = "handled", !.sub = n, !.payload = p,
                         !.outcome = o.kind, !.invoked = TRUE, !.calls = 1,
                         !.id = Uuid(n),
                         !.key = o.key, !.value = o.value, !.version = o.version,
                         !.m = o.m, !.handler = h]
    ELSE [NoEvent EXCEPT !.kind = "handled", !.sub = n, !.payload = p,
                         !.outcome = o.kind]

\* handleSubscribedChange without its deferred recover: a panic leaves the call
HandleEnds_NoRecover(o, h) ==
    IF o.kind = "panic" \/ (o.kind = "event" /\ h = "panic") THEN "panics" ELSE "returns"

\* how handleSubscribedChange ends: the deferred function recovers every panic
\* raised while decoding or by the handler and logs it, so the call returns
HandleEnds(o, h) == "returns"

\* WaitForNotification(ctxTimeout) returns a notification, which is handed to
\* handleSubscribedChange; the loop goes on whatever that call logged
ListenerNotify(n, p, h) ==
    /\ ~crashed
    /\ lpc[n] = "wait"
    /\ ctxErr[n] = "nil"
    /\ \E o \in Decoded[p] :
          /\ ev' = HandleSubscribedChange(n, p, o, h)
          /\ IF HandleEnds(o, h) = "returns"
             THEN UNCHANGED <<lpc, exit, crashed>>
             ELSE /\ lpc' = [lpc EXCEPT ![n] = "panicked"]
                  /\ exit' = [exit EXCEPT ![n] = "panic"]
                  /\ crashed' = TRUE
    /\ UNCHANGED <<store, registry, nextSub, callers, history, conn, ctxErr>>

\* the wait bound by the caller's ctx alone: a passed deadline does not end it
ListenerWaitDone_NoDeadline(n) ==
    /\ ~crashed
    /\ lpc[n] = "wait"
    /\ ctxErr[n] = "canceled"
    /\ lpc' = [lpc EXCEPT ![n] = "done"]
    /\ conn' = [conn EXCEPT ![n] = "released"]
    /\ exit' = [exit EXCEPT ![n] = "canceled"]
    /\ ev' = NoEvent
    /\ UNCHANGED <<store, registry, nextSub, callers, history, ctxErr, crashed>>

\* WaitForNotification(ctxTimeout) returns an error because ctxTimeout is done:
\* its deadline passed (pgconn.Timeout) or it was cancelled; return without
\* logging
ListenerWaitDone(n) ==
    /\ ~crashed
    /\ lpc[n] = "wait"
    /\ ctxErr[n] # "nil"
    /\ lpc' = [lpc EXCEPT ![n] = "done"]
    /\ conn' = [conn EXCEPT ![n] = "released"]
    /\ exit' = [exit EXCEPT ![n] =
                   IF ctxErr[n] = "deadline exceeded" THEN "timeout" ELSE "canceled"]
    /\ ev' = NoEvent
    /\ UNCHANGED <<store, registry, nextSub, callers, history, ctxErr, crashed>>

\* a return from the wait loop that leaves the connection with the listener
ListenerWaitError_NoRelease(n) ==
    /\ ~crashed
    /\ lpc[n] = "wait"
    /\ ctxErr[n] = "nil"
    /\ lpc' = [lpc EXCEPT ![n] = "done"]
    /\ exit' = [exit EXCEPT ![n] = "wait error"]
    /\ ev' = NoEvent
    /\ UNCHANGED <<store, registry, nextSub, callers, history, conn, ctxErr, crashed>>

\* WaitForNotification(ctxTimeout) returns another error (the connection broke):
\* log, return
ListenerWaitError(n) ==
    /\ ~crashed
    /\ lpc[n] = "wait"
    /\ ctxErr[n] = "nil"
    /\ lpc' = [lpc EXCEPT ![n] = "done"]
    /\ conn' = [conn EXCEPT ![n] = "released"]
    /\ exit' = [exit EXCEPT ![n] = "wait error"]
    /\ ev' = NoEvent
    /\ UNCHANGED <<store, registry, nextSub, callers, history, ctxErr, crashed>>

\* the state of subscription n in the terms of the specification: Starting until
\* the listen command has succeeded, Listening while the loop waits, Stopped once
\* doSubscribe has returned or the process has died
ListenerState(n) ==
    IF lpc[n] = "none" THEN "None"
    ELSE IF crashed \/ lpc[n] \in {"done", "panicked"} THEN "Stopped"
    ELSE IF lpc[n] \in {"acquire", "exec"} THEN "Starting"
    ELSE "Listening"

Live(n) == ListenerState(n) \in {"Starting", "Listening"}

(***************************************************************************)
(* Specifications.                                                          *)
(***************************************************************************)
ListenerStep(n) ==
    \/ \E ok \in BOOLEAN : ListenerAcquire(n, ok)
    \/ \E ok \in BOOLEAN : ListenerExec(n, ok)
    \/ \E p \in PayloadIds, h \in HandlerResults : ListenerNotify(n, p, h)
    \/ ListenerWaitDone(n)
    \/ ListenerWaitError(n)

\* the store used by MaxCallers goroutines at once
Next ==
    \/ \E props \in InitProps, db \in DbAnswers : StoreInit(props, db)
    \/ \E c \in Callers : SubscribeLoad(c)
    \/ \E c \in Callers : SubscribeStore(c)
    \/ \E c \in Callers, id \in UnsubscribeArgs : UnsubscribeLoad(c, id)
    \/ \E c \in Callers : UnsubscribeDelete(c)
    \/ \E c \in Callers : UnsubscribeClose(c)
    \/ \E n \in Subs : CancelCtx(n)
    \/ \E n \in Subs : Expire(n)
    \/ \E n \in Subs : ListenerStep(n)

Spec == Init /\ [][Next]_vars

\* the store used by one goroutine, which makes at most MaxListeners
\* subscriptions
SeqNext ==
    \/ \E props \in InitProps, db \in DbAnswers : StoreInit(props, db)
    \/ nextSub < MaxListeners /\ SubscribeLoad(1)
    \/ SubscribeStore(1)
    \/ \E id \in UnsubscribeArgs : UnsubscribeLoad(1, id)
    \/ UnsubscribeDelete(1)
    \/ UnsubscribeClose(1)
    \/ \E n \in Subs : CancelCtx(n)
    \/ \E n \in Subs : Expire(n)
    \/ \E n \in Subs : ListenerStep(n)

SeqSpec == Init /\ [][SeqNext]_vars

\* a started goroutine is scheduled, its calls into the pool and the database
\* return, and the timer of ctxTimeout fires
FairSeqSpec ==
    /\ Init
    /\ [][SeqNext]_vars
    /\ \A n \in Subs : WF_vars(Expire(n))
    /\ \A n \in Subs : WF_vars(\E ok \in BOOLEAN : ListenerAcquire(n, ok))
    /\ \A n \in Subs : WF_vars(\E ok \in BOOLEAN : ListenerExec(n, ok))
    /\ \A n \in Subs : WF_vars(ListenerWaitDone(n))

\* the synchronous path of the store: Init with every kind of property mapping,
\* and Get
QueryNext ==
    \/ \E props \in ParseProps, db \in DbAnswers : StoreInit(props, db)
    \/ \E r \in DOMAIN GetRequests, q \in QueryResults, scan \in ScanResults : Get(r, q, scan)

QuerySpec == Init /\ [][QueryNext]_vars

\* the calling goroutines alone: Init, Subscribe and Unsubscribe in every
\* interleaving of their steps, the listeners they start not being scheduled
RegistryNext ==
    \/ \E props \in InitProps, db \in DbAnswers : StoreInit(props, db)
    \/ \E c \in Callers : SubscribeLoad(c)
    \/ \E c \in Callers : SubscribeStore(c)
    \/ \E c \in Callers, id \in UnsubscribeArgs : UnsubscribeLoad(c, id)
    \/ \E c \in Callers : UnsubscribeDelete(c)
    \/ \E c \in Callers : UnsubscribeClose(c)

RegistrySpec == Init /\ [][RegistryNext]_vars

(***************************************************************************)
(* Claims.                                                                  *)
(***************************************************************************)
LiveListeners == {n \in Subs : Live(n)}

\* C1: in every reachable state at most one listener of the store's channel is
\* live (Starting or Listening).
C1_AtMostOneLiveListener == Cardinality(LiveListeners) <= 1

\* the step in which caller c returns from Subscribe
SubscribeReturns(c) == callers[c].pc = "sub_store" /\ callers'[c].pc = "idle"

\* C2: when a Subscribe call returns that began after an earlier Subscribe call
\* had returned, no Unsubscribe having been called, the two identifiers differ
\* and the stop signal of the earlier subscription is closed.
C2_SecondSubscribeClosesFirst ==
    [][\A c \in Callers :
          (SubscribeReturns(c) /\ ~unsubCalled') =>
              \A m \in callers[c].prior :
                  /\ Uuid(m) # callers[c].id
                  /\ closes'[m] >= 1]_vars

\* the handler of subscription n has just been invoked
HandlerInvoked(n) == ev.kind = "handled" /\ ev.sub = n /\ ev.invoked

\* C3: once Unsubscribe has returned for a registered identifier, the handler
\* of that subscription is not invoked again.
C3_NoHandlerAfterUnsubscribe == \A n \in Subs : HandlerInvoked(n) => n \notin unsubscribed

\* C4: no stop signal is closed twice, in any interleaving of Subscribe and
\* Unsubscribe calls.
C4_NoDoubleClose == \A n \in Subs : closes[n] <= 1

\* C5: a listener in Listening whose stop signal has not been closed, whose
\* caller context has not been cancelled and whose wait has met no other error
\* is in Listening after the step too, however long ago it subscribed.
C5_ListenerRunsUntilCancelled ==
    [][\A n \in Subs :
          (/\ ListenerState(n) = "Listening"
           /\ closes'[n] = 0
           /\ ctxErr'[n] # "canceled"
           /\ exit'[n] # "wait error") => ListenerState(n)' = "Listening"]_vars

\* C6: once the stop signal of a subscription is closed its listener eventually
\* reaches Stopped, and once the deadline of its bounded wait has passed the
\* listener dispatches nothing more and its next step is its return.
C6_ClosedStopLeadsToStopped ==
    /\ \A n \in Subs : (closes[n] >= 1) ~> (ListenerState(n) = "Stopped")
    /\ [][\A n \in Subs :
             ctxErr[n] = "deadline exceeded" =>
                 /\ ~(ev'.kind = "handled" /\ ev'.sub = n)
                 /\ (lpc'[n] # lpc[n] => lpc'[n] = "done")]_vars

\* a subscription whose stop signal Unsubscribe closed and whose listener
\* returned when its deadline passed
C6_Witness ==
    \E n \in Subs : n \in unsubscribed /\ closes[n] = 1 /\ lpc[n] = "done"
                    /\ exit[n] = "timeout"

\* the step in which the start of listener n fails
StartFails(n) == lpc[n] \in {"acquire", "exec"} /\ lpc'[n] \in {"done", "panicked"}

\* C7: a failure while listener n starts stops that listener only: the process
\* does not crash and every other listener stays as it is.
C7_StartupFailureIsLocal ==
    [][\A n \in Subs :
          StartFails(n) =>
              /\ ~crashed'
              /\ ListenerState(n)' = "Stopped"
              /\ \A m \in Subs \ {n} : ListenerState(m)' = ListenerState(m)]_vars

\* the step in which an Unsubscribe call for an identifier that is not in the
\* registry runs from its call to its return
UnsubscribeUnknown ==
    /\ ev'.kind = "return"
    /\ ev'.op = "Unsubscribe"
    /\ ~LoadOk(subscribeStopChanMap, ev'.id)
    /\ callers' = callers

\* C8: Unsubscribe with an identifier that is not in the registry returns nil
\* and leaves the registry, every stop signal and every listener as they were.
C8_UnsubscribeUnknownNoEffect ==
    [][UnsubscribeUnknown =>
          /\ ev'.err = NoError
          /\ UNCHANGED <<subscribeStopChanMap, closes, lpc, conn, ctxErr, exit, crashed>>]_vars

\* Unsubscribe has returned for an unknown identifier while a subscription is
\* registered and its listener runs
C8_Witness ==
    /\ ev.kind = "return" /\ ev.op = "Unsubscribe" /\ ~ev.found
    /\ \E n \in Subs : LoadOk(subscribeStopChanMap, Uuid(n)) /\ Live(n)

\* the payloads that decode to an event whatever the iteration order
ValidPayloads ==
    {p \in PayloadIds :
        /\ Unmarshal(PayloadSamples[p]).ok
        /\ DataIsMap(Unmarshal(PayloadSamples[p]).fields)
        /\ \A o \in Decoded[p] : o.kind = "event"}

\* the last step handled a notification for listener n that failed: its payload
\* was no JSON, its decoding panicked, or the handler returned an error
FailedRun(n) ==
    /\ ev.kind = "handled"
    /\ ev.sub = n
    /\ ev.outcome \in {"unmarshal_error", "panic"} \/ ev.handler = "error"

\* C9: after a notification that failed the listener is in Listening, and a
\* valid notification that follows is dispatched to the handler.
C9_ListenerSurvivesBadNotification ==
    /\ [](\A n \in Subs : FailedRun(n) => ListenerState(n) = "Listening")
    /\ [][\A n \in Subs :
             (FailedRun(n) /\ ev'.kind = "handled" /\ ev'.sub = n
                 /\ ev'.payload \in ValidPayloads) =>
                 (ev'.invoked /\ ev'.id = Uuid(n) /\ ListenerState(n)' = "Listening")]_vars

\* a listener still waiting after a notification whose decoding panicked
C9_Witness ==
    \E n \in Subs : FailedRun(n) /\ ev.outcome = "panic" /\ lpc[n] = "wait"

\* the payloads that are JSON but carry no "data" mapping
NoDataPayloads ==
    {p \in PayloadIds :
        /\ Unmarshal(PayloadSamples[p]).ok
        /\ ~DataIsMap(Unmarshal(PayloadSamples[p]).fields)}

\* C10: for a notification whose JSON payload has no "data" mapping the handler
\* is not invoked.
C10_NoDataNotDispatched ==
    (ev.kind = "handled" /\ ev.payload \in NoDataPayloads) => ~ev.invoked

\* the members of the "data" mapping of payload p
DataRow(p) == Lookup(Unmarshal(PayloadSamples[p]).fields, NmData).fields

\* a and b are the same name up to the case of their letters
FoldEq(a, b) ==
    /\ Len(a) = Len(b)
    /\ \A i \in 1..Len(a) :
          \/ a[i] = b[i]
          \/ a[i] >= 65 /\ a[i] <= 90 /\ b[i] = a[i] + 32
          \/ b[i] >= 65 /\ b[i] <= 90 /\ a[i] = b[i] + 32

\* the members of row named name in some letter case
Fields(row, name) == {i \in 1..Len(row) : FoldEq(row[i][1], name)}

\* the payloads whose "data"."metadata" mapping has an entry that is no string
BadMetadataPayloads ==
    {p \in PayloadIds :
        /\ Unmarshal(PayloadSamples[p]).ok
        /\ DataIsMap(Unmarshal(PayloadSamples[p]).fields)
        /\ \E i \in Fields(DataRow(p), NmMetadataLower) :
              /\ DataRow(p)[i][2].t = "object"
              /\ \E j \in 1..Len(DataRow(p)[i][2].fields) :
                    DataRow(p)[i][2].fields[j][2].t # "string"}

\* the payloads that are not JSON
NotJSONPayloads == {p \in PayloadIds : PayloadSamples[p].t = "invalid"}

\* C11: for a notification whose payload is not valid JSON, or whose
\* "data"."metadata" mapping has an entry whose value is not a string, the
\* handler is not invoked.
C11_UndecodableNotDispatched ==
    (ev.kind = "handled" /\ ev.payload \in NotJSONPayloads \cup BadMetadataPayloads) =>
        (~ev.invoked /\ ev.calls = 0)

\* a notification whose metadata holds a number has been handled: the type
\* assertion panicked and the panic was recovered
C11_Witness ==
    ev.kind = "handled" /\ ev.payload \in BadMetadataPayloads /\ ev.outcome = "panic"

\* the payloads {"data": {key, value, version, metadata}} with each of the four
\* fields once, in any letter case, strings for the first three and a mapping
\* of strings for the fourth; other fields may be present
WellTypedPayloads ==
    {p \in PayloadIds :
        /\ Unmarshal(PayloadSamples[p]).ok
        /\ DataIsMap(Unmarshal(PayloadSamples[p]).fields)
        /\ \A nm \in {NmKeyLower, NmValueLower, NmVersionLower} :
              /\ Cardinality(Fields(DataRow(p), nm)) = 1
              /\ \A i \in Fields(DataRow(p), nm) : DataRow(p)[i][2].t = "string"
        /\ Cardinality(Fields(DataRow(p), NmMetadataLower)) = 1
        /\ p \notin BadMetadataPayloads
        /\ \A i \in Fields(DataRow(p), NmMetadataLower) : DataRow(p)[i][2].t = "object"}

\* the value of the field of payload p named name in some letter case
FieldOf(p, name) == DataRow(p)[CHOOSE i \in Fields(DataRow(p), name) : TRUE][2]

\* the mapping a JSON object of strings stands for
MappingOf(obj) ==
    [k \in {obj.fields[j][1] : j \in 1..Len(obj.fields)} |->
        obj.fields[CHOOSE j \in 1..Len(obj.fields) : obj.fields[j][1] = k][2].s]

\* C12: for a well-typed payload with field names in any letter case the handler
\* is invoked exactly once, with an event whose ID is the listener's identifier
\* and whose one item is keyed by the payload's key and carries its value,
\* version and metadata mapping; other fields of "data" are ignored.
C12_WellTypedDispatchedOnce ==
    (ev.kind = "handled" /\ ev.payload \in WellTypedPayloads) =>
        /\ ev.invoked
        /\ ev.calls = 1
        /\ ev.id = Uuid(ev.sub)
        /\ ev.key = FieldOf(ev.payload, NmKeyLower).s
        /\ ev.value = FieldOf(ev.payload, NmValueLower).s
        /\ ev.version = FieldOf(ev.payload, NmVersionLower).s
        /\ ev.m = MappingOf(FieldOf(ev.payload, NmMetadataLower))

\* a payload with capitalised field names has been dispatched
C12_Witness ==
    /\ ev.kind = "handled"
    /\ ev.payload \in WellTypedPayloads
    /\ \E i \in 1..Len(DataRow(ev.payload)) : DataRow(ev.payload)[i][1] = NmKeyMixed
    /\ ev.invoked
    /\ ev.m # EmptyMeta

\* the last step was the return of an Init call
InitReturned == ev.kind = "return" /\ ev.op = "Init"

\* C13: once an Init call has succeeded, every later Init call fails with
\* AlreadyInitialized and leaves the stored configuration and the pool as they
\* were.
C13_InitOnlyOnce ==
    [][(initOk /\ InitReturned') =>
          /\ ev'.err = ErrorAlreadyInitialized
          /\ UNCHANGED <<client, metadata, initOk>>]_vars

\* an initialized store has refused an Init call that was given another valid
\* table name than the one it holds
C13_Witness ==
    /\ initOk
    /\ InitReturned
    /\ ev.err = ErrorAlreadyInitialized
    /\ configtablekey \in DOMAIN ev.props
    /\ ev.props[configtablekey] = TableCfg
    /\ metadata.configTable # TableCfg

\* C14: once an Init call has failed, no later Init call on the same store
\* succeeds (stated for the Init call that follows the failed one).
C14_InitFailureIsPermanent ==
    [][(InitReturned /\ ev.err # NoError /\ InitReturned') => ev'.err # NoError]_vars

\* the errors of parseMetadata
ParseErrors ==
    {ErrorMissingConnectionString, ErrorMissingTableName, ErrorNonASCII,
     ErrorTooLongFieldLength, ErrorMissinMaxTimeout}

\* property k is present in props and not empty
Given(props, k) == k \in DOMAIN props /\ Len(props[k]) > 0

\* the table name of props is missing, empty, not ASCII or longer than 64
BadTable(props) ==
    \/ ~Given(props, configtablekey)
    \/ \E i \in 1..Len(props[configtablekey]) : props[configtablekey][i] > 127
    \/ Len(props[configtablekey]) > 64

\* the sampled texts that are durations, with their values in nanoseconds
DurationValues ==
    (Dur1s :> 1000000000) @@ (Dur0s :> 0) @@ (Dur5ms :> 5000000) @@
    (DurNeg1s :> (0 - 1000000000)) @@ (Dur1s5ms :> 1005000000)

\* the idle time of props is given and is no duration
BadIdleTime(props) ==
    Given(props, connMaxIdleTimeKey) /\ props[connMaxIdleTimeKey] \notin DOMAIN DurationValues

\* the rows rs (row numbers) carry pairwise different keys and metadata columns
\* that are JSON mappings of strings
CleanRows(rs) ==
    /\ \A i, j \in 1..Len(rs) : i # j => RowSamples[rs[i]].key # RowSamples[rs[j]].key
    /\ \A i \in 1..Len(rs) :
          /\ RowSamples[rs[i]].metadata.t = "object"
          /\ \A j \in 1..Len(RowSamples[rs[i]].metadata.fields) :
                RowSamples[rs[i]].metadata.fields[j][2].t = "string"

\* one ConfigurationItem per row of rs, keyed by the row's key
ItemsOf(rs) ==
    [k \in {RowSamples[rs[i]].key : i \in 1..Len(rs)} |->
        LET row == RowSamples[rs[CHOOSE i \in 1..Len(rs) : RowSamples[rs[i]].key = k]]
        IN  [Value |-> row.value, Version |-> row.version,
             Metadata |-> MappingOf(row.metadata)]]

\* C15: when the query succeeds, Get returns no error and a response whose Items
\* hold one ConfigurationItem per row, keyed by the row's key, with the row's
\* value, version and decoded metadata; with no row the mapping is empty.
C15_GetReturnsItems ==
    (ev.kind = "return" /\ ev.op = "Get" /\ ev.err # "query error"
        /\ CleanRows(ev.get.rows)) =>
        /\ ev.err = NoError
        /\ ev.get.resp = "response"
        /\ ev.get.items = ItemsOf(ev.get.rows)

\* C16: two Get calls in a row with the same request, on the same table, build
\* the same query text.
C16_BuildQueryDeterministic ==
    [][(ev.kind = "return" /\ ev.op = "Get" /\ ev'.kind = "return" /\ ev'.op = "Get"
           /\ ev'.get.req = ev.get.req) => ev'.get.query = ev.get.query]_vars

\* C17: after an Init call whose properties hold a valid connection string and
\* table and no connMaxIdleTime, parsing has succeeded and the idle timeout of
\* the store is greater than zero.
C17_AbsentIdleTimeUsesDefault ==
    (/\ InitReturned
     /\ ev.err # ErrorAlreadyInitialized
     /\ Given(ev.props, connectionStringKey)
     /\ ~BadTable(ev.props)
     /\ connMaxIdleTimeKey \notin DOMAIN ev.props) =>
        (ev.err \notin ParseErrors /\ metadata.maxIdleTime > 0)

\* C18: Init on a store with no pool ends with an error of parseMetadata exactly
\* when the connection string is missing or empty, the table is missing, empty,
\* not ASCII or longer than 64, or the idle time is given and no duration;
\* otherwise the configuration holds the given connection string and table and,
\* when an idle time is given, its value.
C18_ParseMetadataValidates ==
    (InitReturned /\ ev.err # ErrorAlreadyInitialized) =>
        IF \/ ~Given(ev.props, connectionStringKey)
           \/ BadTable(ev.props)
           \/ BadIdleTime(ev.props)
        THEN ev.err \in ParseErrors
        ELSE /\ ev.err \notin ParseErrors
             /\ metadata.connectionString = ev.props[connectionStringKey]
             /\ metadata.configTable = ev.props[configtablekey]
             /\ Given(ev.props, connMaxIdleTimeKey) =>
                   metadata.maxIdleTime = DurationValues[ev.props[connMaxIdleTimeKey]]

\* a table name of 65 characters has been rejected
C18_Witness ==
    /\ InitReturned
    /\ ev.err = ErrorTooLongFieldLength
    /\ Len(ev.props[configtablekey]) = 65

\* the ways doSubscribe returns once it holds a connection
ExitPaths == {"listen error", "timeout", "canceled", "wait error"}

\* C19: a listener that has returned, by whichever exit path, has released its
\* connection; a connection is released in the step its listener returns, from
\* being held, and stays released; no listener that has ended holds one.
C19_ConnectionReleasedOnExit ==
    /\ [](\A n \in Subs :
             /\ lpc[n] = "done" => (exit[n] \in ExitPaths /\ conn[n] = "released")
             /\ exit[n] \in ExitPaths => (lpc[n] = "done" /\ conn[n] = "released")
             /\ lpc[n] \in {"done", "panicked"} => conn[n] # "held")
    /\ [][\A n \in Subs :
             /\ conn[n] = "released" => conn'[n] = "released"
             /\ (conn[n] # "released" /\ conn'[n] = "released") =>
                   (conn[n] = "held" /\ lpc[n] # "done" /\ lpc'[n] = "done")]_vars

\* a listener has returned after an error of its wait other than a timeout or a
\* cancellation, its connection released
C19_Witness ==
    \E n \in Subs : exit[n] = "wait error" /\ lpc[n] = "done" /\ conn[n] = "released"

\* C20: every stop signal stored in the registry is open.
C20_StoredSignalsAreOpen ==
    \A k \in DOMAIN subscribeStopChanMap : closes[subscribeStopChanMap[k]] = 0

\* a stop signal has been closed and is out of the registry while another
\* subscription is registered
C20_Witness ==
    /\ \E n \in Subs : closes[n] >= 1 /\ ~LoadOk(subscribeStopChanMap, Uuid(n))
    /\ \E m \in Subs : LoadOk(subscribeStopChanMap, Uuid(m))

====
